---- MODULE Spec2Model ----
(***************************************************************************)
(* Model of natgas_HH_volatility_analysis.py: the CSV loader, the          *)
(* chronological reversal and date conversion, the log-return and rolling  *)
(* volatility calculations, and main() that chains them.                   *)
(*                                                                         *)
(* DataFrames are objects on a heap (a sequence of frames); a variable of  *)
(* the program holds a reference (an index into the heap) or None.  A      *)
(* frame is a function from column names to columns, a column a sequence   *)
(* of cells.  Positions are 1-based here and 0-based in the program.       *)
(*                                                                         *)
(* Floating-point cells are kept symbolically:                             *)
(*   k = "num"  the rational n/d (a price is n/1)                          *)
(*   k = "ln"   the real ln(n/d), n > 0, d > 0                             *)
(*   k = "std"  the unbiased sample standard deviation of the cells `of`   *)
(*   k = "nan", "pinf", "ninf"  the IEEE values NaN, +inf, -inf            *)
(* Overflow and rounding of the 64-bit floats are outside the model.       *)
(***************************************************************************)
EXTENDS Integers, Sequences, FiniteSets, TLC

VARIABLES file, pc, heap, df, df_with_returns, df_with_volatility, err, shown, call

vars == <<file, pc, heap, df, df_with_returns, df_with_volatility, err, shown, call>>

\* ---------------------------------------------------------------- bounds

\* Longest CSV file (rows) main is run on.
MaxRows == 3
\* Longest column the two calculations are called on directly.
MaxLen == 5
\* Below zero, how far the window argument ranges.
NegWindows == 1

\* ---------------------------------------------------------------- cells

None == 0

NaN == [k |-> "nan", n |-> 0, d |-> 1, of |-> <<>>]
PInf == [k |-> "pinf", n |-> 0, d |-> 1, of |-> <<>>]
NInf == [k |-> "ninf", n |-> 0, d |-> 1, of |-> <<>>]

Num(a) == [k |-> "num", n |-> a, d |-> 1, of |-> <<>>]

\* A cell holds a value: a finite number, neither NaN nor an infinity.
Defined(v) == v.k \in {"num", "ln", "std"}

Abs(a) == IF a < 0 THEN -a ELSE a

RECURSIVE Gcd(_, _)
Gcd(a, b) == IF b = 0 THEN a ELSE Gcd(b, a % b)

\* The rational a/b in lowest terms with a positive denominator (b # 0).
Ratio(a, b) ==
  LET g == Gcd(Abs(a), Abs(b))
      s == IF b < 0 THEN -1 ELSE 1
  IN [k |-> "num", n |-> (s * a) \div g, d |-> (s * b) \div g, of |-> <<>>]

\* Float division x / y of two price cells, as IEEE 754 and numpy define it.
Div(x, y) ==
  IF x.k = "nan" \/ y.k = "nan" THEN NaN
  ELSE IF y.n = 0
       THEN (IF x.n = 0 THEN NaN ELSE IF x.n > 0 THEN PInf ELSE NInf)
       ELSE Ratio(x.n * y.d, x.d * y.n)

\* A variant that takes the logarithm of the magnitude.
LogOfAbs(x) ==
  CASE x.k = "nan" -> NaN
    [] x.k \in {"pinf", "ninf"} -> PInf
    [] x.k = "num" /\ x.n = 0 -> NInf
    [] OTHER -> [k |-> "ln", n |-> Abs(x.n), d |-> x.d, of |-> <<>>]

\* np.log of a cell produced by Div.
Log(x) ==
  CASE x.k = "nan" -> NaN
    [] x.k = "pinf" -> PInf
    [] x.k = "ninf" -> NaN
    [] x.k = "num" /\ x.n < 0 -> NaN
    [] x.k = "num" /\ x.n = 0 -> NInf
    [] OTHER -> [k |-> "ln", n |-> x.n, d |-> x.d, of |-> <<>>]

\* A variant that fills the leading gap with the first cell, as a shift
\* followed by bfill() does.
ShiftFilled(s) == [i \in 1..Len(s) |-> IF i = 1 THEN s[1] ELSE s[i - 1]]

\* A variant that shifts the other way, as shift(-1) does.
ShiftBack(s) == [i \in 1..Len(s) |-> IF i = Len(s) THEN NaN ELSE s[i + 1]]

\* Series.shift(1): every cell moves one position later, position 0 gets NaN.
Shift1(s) == [i \in 1..Len(s) |-> IF i = 1 THEN NaN ELSE s[i - 1]]

\* Element-wise np.log(s / s.shift(1)).
LogRatio(s) == [i \in 1..Len(s) |-> Log(Div(s[i], Shift1(s)[i]))]

\* ---------------------------------------------------------------- rolling

Max(a, b) == IF a > b THEN a ELSE b

\* Rolling._prep_values: the window routines take an infinity as NaN.
PrepValues(s) == [i \in 1..Len(s) |-> IF s[i].k \in {"pinf", "ninf"} THEN NaN ELSE s[i]]

\* The cells of the fixed trailing window of w samples ending at position i,
\* cut at the start of the series.
WindowAt(s, i, w) == SubSeq(s, Max(1, i - w + 1), i)

IsObservation(v) == v.k # "nan"

\* The window's observations: NaN cells are not counted.
Observations(win) == SelectSeq(win, IsObservation)

\* roll_var followed by the square root: a position has a value when its
\* window holds at least minp (and at least one, and more than ddof)
\* observations.
RollStd(s, w, minp, ddof) ==
  [i \in 1..Len(s) |->
     LET obs == Observations(WindowAt(s, i, w))
     IN IF Len(obs) >= Max(minp, 1) /\ Len(obs) > ddof
        THEN [k |-> "std", n |-> 0, d |-> 1, of |-> obs]
        ELSE NaN]

\* A variant that takes min_periods = 1.
RollingStdMinPeriods1(s, w) == RollStd(PrepValues(s), w, 1, 1)

\* Series.rolling(window=w).std() for w >= 0: min_periods defaults to the
\* window, ddof to 1.
RollingStd(s, w) == RollStd(PrepValues(s), w, w, 1)

\* ---------------------------------------------------------------- dates

\* A date text "a/b/c" is the triple <<a, b, c>> of its fields.

IsLeap(y) == (y % 4 = 0 /\ y % 100 # 0) \/ y % 400 = 0

DaysIn(m, y) ==
  IF m = 2 THEN (IF IsLeap(y) THEN 29 ELSE 28)
  ELSE IF m \in {4, 6, 9, 11} THEN 30 ELSE 31

ValidDate(y, m, d) == m \in 1..12 /\ d >= 1 /\ d <= DaysIn(m, y)

\* pd.to_datetime(text, format='%m/%d/%Y') of one text can be done.
ParsesMDY(t) == ValidDate(t[3], t[1], t[2])

\* The timestamp of a text under '%m/%d/%Y'.
ParseMDY(t) == [y |-> t[3], m |-> t[1], d |-> t[2]]

\* The same under '%d/%m/%Y', the format the plots read.
ParsesDMY(t) == ValidDate(t[3], t[2], t[1])

ParseDMY(t) == [y |-> t[3], m |-> t[2], d |-> t[1]]

\* Timestamp.strftime('%d/%m/%Y').
StrftimeDMY(ts) == <<ts.d, ts.m, ts.y>>

\* Timestamps compare chronologically.
Before(a, b) ==
  \/ a.y < b.y
  \/ a.y = b.y /\ a.m < b.m
  \/ a.y = b.y /\ a.m = b.m /\ a.d < b.d

\* ---------------------------------------------------------------- frames

DateCol == "Week of"
PriceCol == "Henry Hub Natural Gas Spot Price Dollars per Million Btu"
ReturnsCol == "ln_returns"
VolatilityCol == "rolling_volatility"

\* frame[c] = s: column c is added, or rewritten when the frame has it.
AssignColumn(f, c, s) == [x \in (DOMAIN f) \cup {c} |-> IF x = c THEN s ELSE f[x]]

\* The rows of a frame: the length of its columns.
NRows(f) == Len(f[CHOOSE c \in DOMAIN f : TRUE])

\* A variant that hands back the frame itself.
DfAlias(h, r) == [heap |-> h, ref |-> r]

\* df.copy(): a new frame with the same columns and cells.
DfCopy(h, r) == [heap |-> Append(h, h[r]), ref |-> Len(h) + 1]

\* ---------------------------------------------------------------- exceptions

NoErr == [type |-> "none", msg |-> "", position |-> -1, text |-> <<>>]

BadDate(p, t) ==
  [type |-> "ValueError", msg |-> "time data doesn't match format, at position",
   position |-> p, text |-> t]

BadWindow ==
  [type |-> "ValueError", msg |-> "window must be an integer 0 or greater",
   position |-> -1, text |-> <<>>]

NoneHasNoIloc ==
  [type |-> "AttributeError", msg |-> "'NoneType' object has no attribute 'iloc'",
   position |-> -1, text |-> <<>>]

\* ---------------------------------------------------------------- the program

\* A result of a call: the heap after it, the frame returned (None when it
\* raised) and the exception raised (NoErr when it returned).
Returned(h, r) == [heap |-> h, ref |-> r, raised |-> NoErr]
Raised(h, e) == [heap |-> h, ref |-> None, raised |-> e]

\* The frame pd.read_csv builds of the rows of a file.
FrameOfRows(rows) ==
  (DateCol :> [i \in 1..Len(rows) |-> rows[i].date])
    @@ (PriceCol :> [i \in 1..Len(rows) |-> rows[i].price])

\* read_csv_file: FileNotFoundError and every other Exception of pd.read_csv
\* are caught and None is returned.
read_csv_file(h, f) ==
  IF f.status = "ok"
  THEN Returned(Append(h, FrameOfRows(f.rows)), Len(h) + 1)
  ELSE Returned(h, None)

\* A variant that keeps the order.
KeepOrder(s) == s

\* s.iloc[::-1] of one column, renumbered from 0 by reset_index(drop=True).
Reverse(s) == [i \in 1..Len(s) |-> s[Len(s) + 1 - i]]

\* df.iloc[::-1].reset_index(drop=True): a new frame, the rows in reverse.
ReverseRows(h, r) ==
  Returned(Append(h, [c \in DOMAIN h[r] |-> Reverse(h[r][c])]), Len(h) + 1)

Min(S) == CHOOSE x \in S : \A y \in S : x <= y

\* convert_date_format: to_datetime raises at the first text, in the order
\* of the frame it is given, that does not parse; its message names that
\* position and text.
convert_date_format(h, r, date_column) ==
  LET c == DfCopy(h, r)
      col == c.heap[c.ref][date_column]
      bad == {i \in 1..Len(col) : ~ParsesMDY(col[i])}
      new == [i \in 1..Len(col) |-> StrftimeDMY(ParseMDY(col[i]))]
  IN IF bad # {}
     THEN Raised(c.heap, BadDate(Min(bad) - 1, col[Min(bad)]))
     ELSE Returned([c.heap EXCEPT ![c.ref] = AssignColumn(@, date_column, new)], c.ref)

\* calculate_ln_returns.
calculate_ln_returns(h, r, price_column) ==
  LET c == DfCopy(h, r)
      new == LogRatio(c.heap[c.ref][price_column])
  IN Returned([c.heap EXCEPT ![c.ref] = AssignColumn(@, ReturnsCol, new)], c.ref)

\* calculate_rolling_volatility: rolling() refuses a negative window with a
\* ValueError and takes every other integer.
calculate_rolling_volatility(h, r, returns_column, window) ==
  LET c == DfCopy(h, r)
      new == RollingStd(c.heap[c.ref][returns_column], window)
  IN IF window < 0
     THEN Raised(c.heap, BadWindow)
     ELSE Returned([c.heap EXCEPT ![c.ref] = AssignColumn(@, VolatilityCol, new)], c.ref)

\* What a plot draws: the dates read under '%d/%m/%Y' against a column.
Figure(f, date_column, y_column) ==
  [x |-> [i \in 1..NRows(f) |-> ParseDMY(f[date_column][i])], y |-> f[y_column]]

volatility_window == 156

\* The record of a call of one of the three stages.
Call(fn, arg, column, window, res) ==
  [fn |-> fn, arg |-> arg, column |-> column, window |-> window, ret |-> res.ref]

NoCall == [fn |-> "", arg |-> None, column |-> "", window |-> 0, ret |-> None]

\* ---------------------------------------------------------------- inputs

\* Date texts a file may hold: three dates that parse, one of them written
\* with fields that also read as a date the other way round, and the text
\* "13/40/2020" that does not parse.
DateTexts == {<<12, 31, 2019>>, <<1, 2, 2020>>, <<2, 1, 2020>>, <<13, 40, 2020>>}

\* Prices a file may hold: missing, zero, positive.
FilePrices == {NaN, Num(0), Num(2)}

\* Cells of a column the calculations are called on directly.
PriceVals == {NaN, Num(-1), Num(0), Num(1), Num(2)}

SeqsUpTo(S, n) == UNION {[1..m -> S] : m \in 0..n}

Rows == [date : DateTexts, price : FilePrices]

\* The file main reads: absent, not readable as CSV, or a table of rows.
Files ==
  {[status |-> st, rows |-> <<>>] : st \in {"missing", "unreadable"}}
    \cup {[status |-> "ok", rows |-> rs] : rs \in SeqsUpTo(Rows, MaxRows)}

Windows == (0 - NegWindows)..(MaxLen + 1)

\* ---------------------------------------------------------------- main

Init ==
  /\ file \in Files
  /\ pc = "read"
  /\ heap = <<>>
  /\ df = None
  /\ df_with_returns = None
  /\ df_with_volatility = None
  /\ err = NoErr
  /\ shown = <<>>
  /\ call = NoCall

\* df = read_csv_file(csv_file_path)
ReadCsv ==
  /\ pc = "read"
  /\ LET res == read_csv_file(heap, file)
     IN /\ heap' = res.heap
        /\ df' = res.ref
  /\ pc' = "reverse"
  /\ UNCHANGED <<file, df_with_returns, df_with_volatility, err, shown, call>>

\* df = df.iloc[::-1].reset_index(drop=True): an attribute of None raises.
ReverseOrder ==
  /\ pc = "reverse"
  /\ IF df = None
     THEN /\ err' = NoneHasNoIloc
          /\ pc' = "raised"
          /\ UNCHANGED <<heap, df>>
     ELSE /\ LET res == ReverseRows(heap, df)
             IN /\ heap' = res.heap
                /\ df' = res.ref
          /\ pc' = "convert"
          /\ UNCHANGED err
  /\ UNCHANGED <<file, df_with_returns, df_with_volatility, shown, call>>

\* df = convert_date_format(df, 'Week of')
ConvertDates ==
  /\ pc = "convert"
  /\ LET res == convert_date_format(heap, df, DateCol)
     IN /\ heap' = res.heap
        /\ err' = res.raised
        /\ call' = Call("convert_date_format", df, DateCol, 0, res)
        /\ IF res.raised = NoErr
           THEN df' = res.ref /\ pc' = "print"
           ELSE df' = df /\ pc' = "raised"
  /\ UNCHANGED <<file, df_with_returns, df_with_volatility, shown>>

\* if df is not None: print the shape and the head
PrintShape ==
  /\ pc = "print"
  /\ shown' = IF df # None
              THEN Append(shown, [shape |-> <<NRows(heap[df]), Cardinality(DOMAIN heap[df])>>])
              ELSE shown
  /\ pc' = "plot_price"
  /\ UNCHANGED <<file, heap, df, df_with_returns, df_with_volatility, err, call>>

\* plot_price_over_time(df, 'Week of', price column)
PlotPrice ==
  /\ pc = "plot_price"
  /\ shown' = Append(shown, Figure(heap[df], DateCol, PriceCol))
  /\ pc' = "ln_returns"
  /\ UNCHANGED <<file, heap, df, df_with_returns, df_with_volatility, err, call>>

\* df_with_returns = calculate_ln_returns(df, price column)
LnReturns ==
  /\ pc = "ln_returns"
  /\ LET res == calculate_ln_returns(heap, df, PriceCol)
     IN /\ heap' = res.heap
        /\ df_with_returns' = res.ref
        /\ call' = Call("calculate_ln_returns", df, PriceCol, 0, res)
  /\ pc' = "rolling_volatility"
  /\ UNCHANGED <<file, df, df_with_volatility, err, shown>>

\* df_with_volatility = calculate_rolling_volatility(df_with_returns, 'ln_returns', 156)
RollingVolatility ==
  /\ pc = "rolling_volatility"
  /\ LET res == calculate_rolling_volatility(heap, df_with_returns, ReturnsCol, volatility_window)
     IN /\ heap' = res.heap
        /\ df_with_volatility' = res.ref
        /\ call' = Call("calculate_rolling_volatility", df_with_returns, ReturnsCol,
                        volatility_window, res)
  /\ pc' = "plot_volatility"
  /\ UNCHANGED <<file, df, df_with_returns, err, shown>>

\* plot_volatility_over_time(df_with_volatility, 'Week of', 'rolling_volatility', 156)
PlotVolatility ==
  /\ pc = "plot_volatility"
  /\ shown' = Append(shown, Figure(heap[df_with_volatility], DateCol, VolatilityCol))
  /\ pc' = "done"
  /\ UNCHANGED <<file, heap, df, df_with_returns, df_with_volatility, err, call>>

Next ==
  \/ ReadCsv
  \/ ReverseOrder
  \/ ConvertDates
  \/ PrintShape
  \/ PlotPrice
  \/ LnReturns
  \/ RollingVolatility
  \/ PlotVolatility

Spec == Init /\ [][Next]_vars

\* ---------------------------------------------------------------- the calculations, called directly

\* A caller holds one frame with a column of prices and calls
\* calculate_ln_returns on it, or not, and then calculate_rolling_volatility
\* on a column of the frame it holds, with a window of its choice.
InitCalc ==
  /\ file = [status |-> "none", rows |-> <<>>]
  /\ pc = "caller"
  /\ \E s \in SeqsUpTo(PriceVals, MaxLen) : heap = <<(PriceCol :> s)>>
  /\ df = 1
  /\ df_with_returns = None
  /\ df_with_volatility = None
  /\ err = NoErr
  /\ shown = <<>>
  /\ call = NoCall

CallLnReturns ==
  /\ pc = "caller"
  /\ df_with_returns = None
  /\ LET res == calculate_ln_returns(heap, df, PriceCol)
     IN /\ heap' = res.heap
        /\ df_with_returns' = res.ref
        /\ call' = Call("calculate_ln_returns", df, PriceCol, 0, res)
  /\ UNCHANGED <<file, pc, df, df_with_volatility, err, shown>>

CallRollingVolatility ==
  /\ pc = "caller"
  /\ \E r \in {df, df_with_returns} \ {None} :
       \E c \in DOMAIN heap[r] :
         \E w \in Windows :
           LET res == calculate_rolling_volatility(heap, r, c, w)
           IN /\ heap' = res.heap
              /\ df_with_volatility' = res.ref
              /\ err' = res.raised
              /\ call' = Call("calculate_rolling_volatility", r, c, w, res)
              /\ pc' = IF res.raised = NoErr THEN "returned" ELSE "raised"
  /\ UNCHANGED <<file, df, df_with_returns, shown>>

NextCalc ==
  \/ CallLnReturns
  \/ CallRollingVolatility

SpecCalc == InitCalc /\ [][NextCalc]_vars

\* ---------------------------------------------------------------- properties

\* The positions of a column that hold a value.
DefinedAt(s) == {i \in 1..Len(s) : Defined(s[i])}

\* The price column given to calculate_ln_returns and the column it added.
Prices == heap[df][PriceCol]
Returns == heap[df_with_returns][ReturnsCol]

\* The column given to the last call and the volatility column it added.
CallIn == heap[call.arg][call.column]
CallOut == heap[call.ret][VolatilityCol]

VolatilityReturned == call.fn = "calculate_rolling_volatility" /\ pc = "returned"

\* C1, as stated: calculate_ln_returns gives a return series as long as the
\* price series, undefined at position 0, and defined at i >= 1 exactly when
\* price[i] and price[i-1] are both defined and price[i-1] > 0; it never raises.
C1_ReturnDefinedIffPreviousPositive ==
  df_with_returns # None =>
    /\ Len(Returns) = Len(Prices)
    /\ 1 \notin DefinedAt(Returns)
    /\ \A i \in 2..Len(Prices) :
         Defined(Returns[i]) <=>
           (Defined(Prices[i]) /\ Defined(Prices[i - 1]) /\ Prices[i - 1].n > 0)

\* C1, amended: the return at i >= 1 is defined exactly when price[i] and
\* price[i-1] are both defined, both non-zero and of the same sign (so, for
\* non-negative prices, both positive), and it is then ln(price[i]/price[i-1]);
\* the series has the length of the price series, position 0 is undefined, and
\* the call returns for every price series.
C1_ReturnDefinedIffRatioPositive ==
  df_with_returns # None =>
    /\ Len(Returns) = Len(Prices)
    /\ 1 \notin DefinedAt(Returns)
    /\ \A i \in 2..Len(Prices) :
         /\ Defined(Returns[i]) <=>
              (Defined(Prices[i]) /\ Defined(Prices[i - 1])
                 /\ Prices[i].n * Prices[i - 1].n > 0)
         /\ Defined(Returns[i]) =>
              /\ Returns[i].k = "ln"
              /\ Returns[i].n * Prices[i - 1].n = Returns[i].d * Prices[i].n
    /\ (call.fn = "calculate_ln_returns" => err = NoErr /\ call.ret = df_with_returns)

\* A zero price after a positive one (the return is -inf), a negative price
\* after a positive one (NaN) and two negative prices (a value) in one series.
C1_Witness ==
  /\ df_with_returns # None
  /\ call.fn = "calculate_ln_returns"
  /\ \E i \in 2..Len(Prices) :
       Prices[i] = Num(0) /\ Prices[i - 1] = Num(2) /\ Returns[i] = NInf
  /\ \E i \in 2..Len(Prices) :
       Prices[i] = Num(-1) /\ Prices[i - 1] = Num(-1) /\ Defined(Returns[i])

\* C2: for a window w >= 2 calculate_rolling_volatility returns a series as
\* long as the return series, defined at position i exactly when i >= w-1
\* and every return at i-w+1..i is defined, its value the standard deviation
\* of those w returns; a window longer than the series raises nothing and
\* leaves every position undefined.
C2_VolatilityDefinedIffFullWindow ==
  (call.fn = "calculate_rolling_volatility" /\ call.window >= 2) =>
    /\ pc = "returned"
    /\ err = NoErr
    /\ Len(CallOut) = Len(CallIn)
    /\ \A i \in 1..Len(CallIn) :
         /\ Defined(CallOut[i]) <=>
              (i >= call.window /\ \A j \in (i - call.window + 1)..i : Defined(CallIn[j]))
         /\ Defined(CallOut[i]) =>
              /\ CallOut[i].k = "std"
              /\ CallOut[i].of = SubSeq(CallIn, i - call.window + 1, i)
    /\ (call.window > Len(CallIn) => DefinedAt(CallOut) = {})

\* A window as long as fits, one full window with a value and a later full
\* window without one.
C2_Witness ==
  /\ VolatilityReturned
  /\ call.window >= 2
  /\ \E i, j \in call.window..Len(CallIn) :
       i < j /\ Defined(CallOut[i]) /\ ~Defined(CallOut[j])

\* C5: calculate_rolling_volatility with a window <= 1 signals an error and
\* returns no series.
C5_SmallWindowRaises ==
  (call.fn = "calculate_rolling_volatility" /\ call.window <= 1) => pc = "raised"

AllPositive(p) == \A i \in 1..Len(p) : p[i].k = "num" /\ p[i].n > 0

\* calculate_rolling_volatility was run on the returns of the prices.
VolatilityOfReturns ==
  VolatilityReturned /\ call.arg = df_with_returns /\ call.column = ReturnsCol

\* C6, as stated: for n positive prices, the returns and then the volatility
\* with window n give exactly one defined volatility, at position n-1.
C6_WindowNGivesOneValue ==
  (VolatilityOfReturns /\ AllPositive(Prices) /\ Len(Prices) >= 2
     /\ call.window = Len(Prices))
    => DefinedAt(CallOut) = {Len(Prices)}

\* C6, amended: for n positive prices and window n no volatility is defined
\* (the only full window holds the undefined return at position 0); with
\* window n-1, n >= 3, exactly one is, at position n-1.
C6_WindowNGivesNoValue ==
  (VolatilityOfReturns /\ AllPositive(Prices)) =>
    /\ call.window = Len(Prices) => DefinedAt(CallOut) = {}
    /\ (call.window = Len(Prices) - 1 /\ Len(Prices) >= 3)
         => DefinedAt(CallOut) = {Len(Prices)}

C6_Witness ==
  /\ VolatilityOfReturns
  /\ AllPositive(Prices)
  /\ Len(Prices) >= 3
  /\ call.window = Len(Prices)
  /\ DefinedAt(Returns) = 2..Len(Prices)
  /\ DefinedAt(CallOut) = {}

\* The price at position k is 0 and every other price is positive.
SingleZeroAt(p, k) ==
  /\ p[k] = Num(0)
  /\ \A i \in (1..Len(p)) \ {k} : p[i].k = "num" /\ p[i].n > 0

\* C7: with one price of 0 at position k among positive prices, the return
\* is undefined at k, at k+1 and at the leading position and nowhere else,
\* and the volatility is undefined wherever the window holds k or k+1.
C7_ZeroPriceTaintsTwoReturns ==
  \A k \in 1..Len(Prices) :
    (df_with_returns # None /\ SingleZeroAt(Prices, k)) =>
      /\ (1..Len(Prices)) \ DefinedAt(Returns) = {1, k, k + 1} \cap (1..Len(Prices))
      /\ VolatilityOfReturns =>
           \A i \in 1..Len(Prices) :
             ({k, k + 1} \cap (Max(1, i - call.window + 1)..i) # {})
               => ~Defined(CallOut[i])

\* A zero price inside the series, its two returns infinite, and a window
\* away from them that has its value.
C7_Witness ==
  /\ VolatilityOfReturns
  /\ call.window >= 2
  /\ \E k \in 2..(Len(Prices) - 1) :
       /\ SingleZeroAt(Prices, k)
       /\ Returns[k] = NInf
       /\ Returns[k + 1] = PInf
  /\ DefinedAt(CallOut) # {}

\* ---- main

\* The file can be read, its dates parse, are distinct and newest first.
ReverseChronological ==
  /\ file.status = "ok"
  /\ \A i \in 1..Len(file.rows) : ParsesMDY(file.rows[i].date)
  /\ \A i, j \in 1..Len(file.rows) :
       i < j => Before(ParseMDY(file.rows[j].date), ParseMDY(file.rows[i].date))

\* main holds the frame convert_date_format returned.
Converted ==
  pc \in {"print", "plot_price", "ln_returns", "rolling_volatility", "plot_volatility", "done"}

\* The dates of a frame, read as the plots read them, increase strictly.
DatesIncrease(f) ==
  \A i, j \in 1..NRows(f) :
    i < j => Before(ParseDMY(f[DateCol][i]), ParseDMY(f[DateCol][j]))

\* C3: the reversal and convert_date_format, on a newest-first file of
\* distinct dates, give a series of the same length with strictly increasing
\* dates, the record at input position k at output position n-1-k.
C3_ReversedInputBecomesChronological ==
  ReverseChronological =>
    /\ pc # "raised"
    /\ Converted =>
         LET n == Len(file.rows)
         IN /\ NRows(heap[df]) = n
            /\ DatesIncrease(heap[df])
            /\ \A k \in 1..n :
                 /\ heap[df][PriceCol][n + 1 - k] = file.rows[k].price
                 /\ ParsesDMY(heap[df][DateCol][n + 1 - k])
                 /\ ParseDMY(heap[df][DateCol][n + 1 - k]) = ParseMDY(file.rows[k].date)

C3_Witness ==
  /\ ReverseChronological
  /\ Len(file.rows) >= 3
  /\ pc = "done"
  /\ file.rows[1].price # file.rows[3].price
  /\ DatesIncrease(heap[df])

\* C4: when a date does not parse, the error names the original index, in
\* the raw input, of a record whose date does not parse.
C4_ErrorNamesOriginalIndex ==
  (pc = "raised" /\ err.type = "ValueError") =>
    /\ err.position + 1 \in 1..Len(file.rows)
    /\ ~ParsesMDY(file.rows[err.position + 1].date)

\* C8: every series normalization hands on has strictly increasing dates.
C8_ConvertedDatesIncrease ==
  Converted => DatesIncrease(heap[df])

\* The column a stage writes.
OwnColumn(fn) ==
  CASE fn = "convert_date_format" -> DateCol
    [] fn = "calculate_ln_returns" -> ReturnsCol
    [] OTHER -> VolatilityCol

\* C9: no step of main changes a frame that exists, and a stage returns a
\* new frame that has the columns of the frame it was given, with the same
\* cells, and the stage's own column.
C9_StagesLeaveTheirInputUnchanged ==
  [][/\ Len(heap') >= Len(heap)
     /\ \A i \in 1..Len(heap) : heap'[i] = heap[i]
     /\ (call' # call /\ call'.ret # None) =>
          LET old == heap[call'.arg]
              new == heap'[call'.ret]
              own == OwnColumn(call'.fn)
          IN /\ call'.ret \notin 1..Len(heap)
             /\ DOMAIN new = (DOMAIN old) \cup {own}
             /\ \A c \in (DOMAIN old) \ {own} : new[c] = old[c]]_vars

\* main ran to its end on a file whose dates the conversion rewrote: the
\* loaded, reversed, converted, return and volatility frames are five frames.
C9_Witness ==
  /\ pc = "done"
  /\ Len(heap) = 5
  /\ NRows(heap[1]) >= 2
  /\ heap[2][DateCol] # heap[3][DateCol]
  /\ DOMAIN heap[df] = {DateCol, PriceCol}
  /\ DOMAIN heap[df_with_returns] = {DateCol, PriceCol, ReturnsCol}
  /\ DOMAIN heap[df_with_volatility] = {DateCol, PriceCol, ReturnsCol, VolatilityCol}

\* C10: when read_csv_file returns None, main raises nothing.
C10_NoFileEndsWithoutException ==
  (pc # "read" /\ df = None) => err = NoErr

====
